---- MODULE Spec2Model ----
(***************************************************************************)
(* EventHub: input validation (src/validation.py), credentials and         *)
(* encryption (src/encryption.py), login and user administration           *)
(* (src/app.py).                                                           *)
(*                                                                         *)
(* op, args and result hold the last call or request and what it gave;     *)
(* users, session, LOGIN_ATTEMPTS and clock are the state of the web       *)
(* application.  Spec makes calls of the validation module, SpecCrypto     *)
(* calls of the encryption module, SpecApp requests to the application.    *)
(*                                                                         *)
(* A Python str is modelled as a sequence of characters, each character a  *)
(* token: an ASCII character stands for itself, a non-ASCII character is   *)
(* named by its code point ("U+00E9").  The empty str "" is << >>.         *)
(* An error message is never inspected character by character by the       *)
(* code, so messages are TLA+ strings; "" is the empty message.            *)
(***************************************************************************)
EXTENDS Integers, Sequences, FiniteSets, TLC

VARIABLES op, args, result, users, session, LOGIN_ATTEMPTS, clock

vars == <<op, args, result, users, session, LOGIN_ATTEMPTS, clock>>

\* the state of the web application (src/app.py): the user store, the session
\* of each client, the failed-login record of each email, and the last
\* timestamp read
appvars == <<users, session, LOGIN_ATTEMPTS, clock>>

(***************************************************************************)
(* Characters                                                              *)
(***************************************************************************)
AsciiDigits == {"0", "1", "2", "3", "4", "5", "6", "7", "8", "9"}

AsciiLower == {"a", "b", "c", "x"}

AsciiUpper == {"A", "B", "C", "X"}

\* U+00E9 e-acute, U+00C9 E-acute, U+00D7 multiplication sign,
\* U+FF11 fullwidth digit one, U+00A0 no-break space.
Whitespace == {" ", "\t", "U+00A0"}

\* every character of the model
AllChars ==
    AsciiDigits \cup AsciiLower \cup AsciiUpper \cup Whitespace
        \cup {"U+00E9", "U+00C9", "U+00D7", "U+FF11"}
        \cup {"!", "@", ".", "_", "-", "'", "/"}

Letters == AsciiLower \cup AsciiUpper \cup {"U+00E9", "U+00C9"}

\* int(d) for an ASCII digit d
DigitValue(c) ==
    CASE c = "0" -> 0 [] c = "1" -> 1 [] c = "2" -> 2 [] c = "3" -> 3
      [] c = "4" -> 4 [] c = "5" -> 5 [] c = "6" -> 6 [] c = "7" -> 7
      [] c = "8" -> 8 [] c = "9" -> 9
      [] c = "U+FF11" -> 1

\* str.isdigit() of one character: fullwidth digits are digits too
CharIsDigit(c) == c \in AsciiDigits \cup {"U+FF11"}

\* \d of the re module on str patterns: Unicode decimal digits
ReDigit(c) == c \in AsciiDigits \cup {"U+FF11"}

\* \w of the re module on str patterns: Unicode letters, digits, underscore
ReWord(c) == c \in Letters \cup AsciiDigits \cup {"U+FF11", "_"}

\* \s of the re module on str patterns
ReSpace(c) == c \in Whitespace

\* unicodedata.normalize("NFKC", c) of one character (every character of
\* the model normalizes to one character)
NFKCChar(c) ==
    CASE c = "U+FF11" -> "1"
      [] c = "U+00A0" -> " "
      [] OTHER -> c

\* str.lower() of one character
LowerChar(c) ==
    CASE c = "A" -> "a" [] c = "B" -> "b" [] c = "C" -> "c" [] c = "X" -> "x"
      [] c = "U+00C9" -> "U+00E9"
      [] OTHER -> c

(***************************************************************************)
(* str operations                                                          *)
(***************************************************************************)
\* unicodedata.normalize("NFKC", s)
NFKC(s) == [i \in 1..Len(s) |-> NFKCChar(s[i])]

\* str.strip(): s from its first to its last non-whitespace character
Strip(s) ==
    LET kept == {i \in 1..Len(s) : s[i] \notin Whitespace}
    IN  IF kept = {} THEN << >>
        ELSE SubSeq(s, CHOOSE i \in kept : \A j \in kept : i <= j,
                       CHOOSE i \in kept : \A j \in kept : i >= j)

\* str.lower()
Lower(s) == [i \in 1..Len(s) |-> LowerChar(s[i])]

\* the characters of s that belong to the set keep, in order
Filter(s, keep) ==
    LET Kept(c) == c \in keep
    IN  SelectSeq(s, Kept)

\* str.isdigit(): non-empty and every character a digit
IsDigit(s) == s # << >> /\ \A i \in 1..Len(s) : CharIsDigit(s[i])

normalize_basic(value) == Strip(NFKC(value))

\* " ".join(s.split()) and re.sub(r"\s+", " ", s): every run of whitespace
\* inside s becomes one space (s is already stripped where the code uses it;
\* split() also drops leading and trailing runs, re.sub keeps one space there)
Collapse(s) ==
    LET First(i) == ~ReSpace(s[i]) \/ i = 1 \/ ~ReSpace(s[i - 1])
        starts == SelectSeq([i \in 1..Len(s) |-> i], First)
    IN  [k \in 1..Len(starts) |->
            IF ReSpace(s[starts[k]]) THEN " " ELSE s[starts[k]]]

\* re.sub(r"\s+", " ", s)
SubSpaces(s) == Collapse(s)

\* " ".join(s.split())
JoinSplit(s) == Strip(Collapse(s))

\* number of positions of s holding a character of the set cs
Count(s, cs) == Cardinality({i \in 1..Len(s) : s[i] \in cs})

(***************************************************************************)
(* Regular patterns                                                        *)
(***************************************************************************)
\* [a-z0-9]
LowerAlnum == {"a", "b", "c", "x"} \cup AsciiDigits

\* A-Za-z, the range U+00C0..U+00FF, \s, apostrophe, hyphen
NameOnCardChars ==
    AsciiLower \cup AsciiUpper \cup {"U+00E9", "U+00C9", "U+00D7"}
        \cup Whitespace \cup {"'", "-"}

\* NAME_ALLOWED_RE: the ranges leave out U+00D7 and U+00F7; only the space
NameAllowedChars ==
    AsciiLower \cup AsciiUpper \cup {"U+00E9", "U+00C9"} \cup {"'", "-", " "}

\* [!@#$%^&*()\-_=+\[\]{}<>?]
PasswordSpecials == {"!", "@", "_", "-", "#", "?"}

\* NAME_ALLOWED_RE.match(s)
NAME_ALLOWED_RE(s) ==
    s # << >> /\ \A i \in 1..Len(s) : s[i] \in NameAllowedChars

\* re.match(all_digits_allowed, s): ^[a-zA-Z<U+00C0>-<U+00FF>\s'-]+$
NameOnCardMatch(s) ==
    s # << >> /\ \A i \in 1..Len(s) : s[i] \in NameOnCardChars

\* PHONE_RE.match(s): ^\d{7,15}$
PHONE_RE(s) ==
    /\ Len(s) >= 7
    /\ Len(s) <= 15
    /\ \A i \in 1..Len(s) : ReDigit(s[i])

\* EMAIL_BASIC_RE.match(s): ^[^@\s]+@[^@\s]+\.[^@\s]+$
\* one "@", no whitespace, something before the "@", and after it a "."
\* with something on both sides
EMAIL_BASIC_RE(s) ==
    /\ Count(s, {"@"}) = 1
    /\ Count(s, Whitespace) = 0
    /\ LET at == CHOOSE i \in 1..Len(s) : s[i] = "@"
       IN  /\ at > 1
           /\ \E j \in (at + 2)..(Len(s) - 1) : s[j] = "."

\* [a-z0-9]+[\._]?[a-z0-9]+
BillingLocalMatch(l) ==
    /\ Len(l) >= 2
    /\ l[1] \in LowerAlnum
    /\ l[Len(l)] \in LowerAlnum
    /\ \A i \in 1..Len(l) : l[i] \in LowerAlnum \cup {".", "_"}
    /\ Count(l, {".", "_"}) <= 1

\* \w+[.]\w{2,3}
BillingDomainMatch(d) ==
    /\ Count(d, {"."}) = 1
    /\ LET dot == CHOOSE i \in 1..Len(d) : d[i] = "."
       IN  /\ dot > 1
           /\ Len(d) - dot \in {2, 3}
           /\ \A i \in 1..Len(d) : i # dot => ReWord(d[i])

\* re.match(r'^[a-z0-9]+[\._]?[a-z0-9]+[@]\w+[.]\w{2,3}$', s)
BillingEmailMatch(s) ==
    /\ Count(s, {"@"}) = 1
    /\ LET at == CHOOSE i \in 1..Len(s) : s[i] = "@"
       IN  /\ BillingLocalMatch(SubSeq(s, 1, at - 1))
           /\ BillingDomainMatch(SubSeq(s, at + 1, Len(s)))

(***************************************************************************)
(* luhn_is_valid                                                           *)
(***************************************************************************)
\* LuhnDigit without the reduction of a doubled digit above 9
LuhnDigit_unreduced(i, digit) ==
    IF i % 2 = 1 THEN 2 * digit ELSE digit

\* the contribution of the digit at index i counted from the right (0-based)
LuhnDigit(i, digit) ==
    IF i % 2 = 1
    THEN (IF 2 * digit > 9 THEN 2 * digit - 9 ELSE 2 * digit)
    ELSE digit

RECURSIVE LuhnChecksum(_, _)
\* checksum over enumerate(reversed(digits)) from index i on
LuhnChecksum(s, i) ==
    IF i >= Len(s) THEN 0
    ELSE LuhnDigit(i, DigitValue(s[Len(s) - i])) + LuhnChecksum(s, i + 1)

luhn_is_valid(number) ==
    IF number = << >> \/ ~IsDigit(number) THEN FALSE
    ELSE LuhnChecksum(number, 0) % 10 = 0

(***************************************************************************)
(* Field validators: each returns <<clean_value, error_message>>           *)
(***************************************************************************)
MinCardLen == 13
MaxCardLen == 19

\* validate_card_number with the upper length bound exclusive
validate_card_number_short_bound(card_number) ==
    LET digits == Filter(normalize_basic(card_number), AsciiDigits)
    IN  IF ~luhn_is_valid(digits)
        THEN <<<< >>, "Invalid card number by Luhn">>
        ELSE IF IsDigit(digits) /\ Len(digits) >= MinCardLen /\ Len(digits) < MaxCardLen
             THEN <<digits, "">>
             ELSE <<<< >>, "Only digits allowed, please retype your card number">>

validate_card_number(card_number) ==
    LET digits == Filter(normalize_basic(card_number), AsciiDigits)
    IN  IF ~luhn_is_valid(digits)
        THEN <<<< >>, "Invalid card number by Luhn">>
        ELSE IF IsDigit(digits) /\ Len(digits) >= MinCardLen /\ Len(digits) <= MaxCardLen
             THEN <<digits, "">>
             ELSE <<<< >>, "Only digits allowed, please retype your card number">>

\* datetime.strptime(s, '%m/%y'): the whole of s must match
\* (1[0-2]|0[1-9]|[1-9])/(\d\d); the two-digit year y is 2000 + y up to
\* 68 and 1900 + y from 69 on.  [ok |-> FALSE] stands for ValueError.
StrptimeMonth(m) ==
    \/ Len(m) = 2 /\ m[1] = "1" /\ m[2] \in {"0", "1", "2"}
    \/ Len(m) = 2 /\ m[1] = "0" /\ m[2] \in AsciiDigits \ {"0"}
    \/ Len(m) = 1 /\ m[1] \in AsciiDigits \ {"0"}

RECURSIVE ToInt(_)
\* int(s) of a non-empty digit string
ToInt(s) ==
    IF s = << >> THEN 0
    ELSE 10 * ToInt(SubSeq(s, 1, Len(s) - 1)) + DigitValue(s[Len(s)])

PivotYear(y) == IF y <= 68 THEN 2000 + y ELSE 1900 + y

strptime(s) ==
    IF \E k \in {1, 2} :
          /\ Len(s) = k + 3
          /\ StrptimeMonth(SubSeq(s, 1, k))
          /\ s[k + 1] = "/"
          /\ ReDigit(s[k + 2]) /\ ReDigit(s[k + 3])
    THEN LET k == Len(s) - 3
         IN  [ok |-> TRUE,
              year |-> PivotYear(ToInt(SubSeq(s, k + 2, k + 3))),
              month |-> ToInt(SubSeq(s, 1, k))]
    ELSE [ok |-> FALSE, year |-> 0, month |-> 0]

\* validate_exp_date rejecting a card that expires in the current month
validate_exp_date_month_inclusive(exp_date, today) ==
    LET date_obj == strptime(normalize_basic(exp_date))
    IN  IF ~date_obj.ok
        THEN <<<< >>, "Please use MM/YY format">>
        ELSE IF \/ date_obj.year < today.year
                \/ (date_obj.year = today.year /\ date_obj.month <= today.month)
             THEN <<<< >>, "Out of date, use another card.">>
             ELSE <<<< >>, "">>

\* today is datetime.now(): a record [year, month]
validate_exp_date(exp_date, today) ==
    LET date_obj == strptime(normalize_basic(exp_date))
    IN  IF ~date_obj.ok
        THEN <<<< >>, "Please use MM/YY format">>
        ELSE IF \/ date_obj.year < today.year
                \/ (date_obj.year = today.year /\ date_obj.month < today.month)
             THEN <<<< >>, "Out of date, use another card.">>
             ELSE <<<< >>, "">>

\* validate_cvv returning the CVV it accepts
validate_cvv_returns_value(cvv) ==
    LET c == normalize_basic(cvv)
    IN  IF IsDigit(c) /\ Len(c) \in {3, 4}
        THEN <<c, "">>
        ELSE <<<< >>, "Invalid CVV">>

validate_cvv(cvv) ==
    LET c == normalize_basic(cvv)
    IN  IF IsDigit(c) /\ Len(c) \in {3, 4}
        THEN <<<< >>, "">>
        ELSE <<<< >>, "Invalid CVV">>

MaxEmailLen == 254

validate_billing_email(billing_email) ==
    LET e == Lower(normalize_basic(billing_email))
    IN  IF Len(e) > MaxEmailLen
        THEN <<<< >>, "Too long">>
        ELSE IF BillingEmailMatch(e)
             THEN <<e, "">>
             ELSE <<<< >>, "Invalid email format">>

MinNameLen == 2
MaxNameLen == 60

validate_name_on_card(name_on_card) ==
    LET normalized_name == JoinSplit(normalize_basic(name_on_card))
    IN  IF Len(normalized_name) < MinNameLen \/ Len(normalized_name) > MaxNameLen
        THEN <<<< >>, "Name must be have only strings">>
        ELSE IF NameOnCardMatch(normalized_name)
             THEN <<normalized_name, "">>
             ELSE <<<< >>, "Invalid name format.">>

\* validate_full_name returning the name it rejects for its characters
validate_full_name_keeps_rejected(name) ==
    LET n == SubSpaces(normalize_basic(name))
    IN  IF n = << >>
        THEN <<<< >>, "Full name is required">>
        ELSE IF Len(n) < MinNameLen \/ Len(n) > MaxNameLen
             THEN <<<< >>, "Full name must be between 2 and 60 characters">>
             ELSE IF ~NAME_ALLOWED_RE(n)
                  THEN <<n, "Invalid characters in name">>
                  ELSE <<n, "">>

validate_full_name(name) ==
    LET n == SubSpaces(normalize_basic(name))
    IN  IF n = << >>
        THEN <<<< >>, "Full name is required">>
        ELSE IF Len(n) < MinNameLen \/ Len(n) > MaxNameLen
             THEN <<<< >>, "Full name must be between 2 and 60 characters">>
             ELSE IF ~NAME_ALLOWED_RE(n)
                  THEN <<<< >>, "Invalid characters in name">>
                  ELSE <<n, "">>

validate_email(email) ==
    LET e == Lower(normalize_basic(email))
    IN  IF e = << >>
        THEN <<<< >>, "Email is required">>
        ELSE IF Len(e) > MaxEmailLen
             THEN <<<< >>, "Email too long">>
             ELSE IF ~EMAIL_BASIC_RE(e)
                  THEN <<<< >>, "Invalid email format">>
                  ELSE <<e, "">>

validate_phone(phone) ==
    LET p == Filter(normalize_basic(phone), AllChars \ {" "})
    IN  IF p = << >>
        THEN <<<< >>, "Phone is required">>
        ELSE IF ~PHONE_RE(p)
             THEN <<<< >>, "Phone must contain 7 to 15 digits">>
             ELSE <<p, "">>

MinPasswordLen == 8
MaxPasswordLen == 64

validate_password(password, email) ==
    LET p == normalize_basic(password)
    IN  IF Len(p) < MinPasswordLen \/ Len(p) > MaxPasswordLen
        THEN <<<< >>, "Password must be between 8 and 64 characters.">>
        ELSE IF Count(p, {" "}) > 0
        THEN <<<< >>, "Password cannot contain spaces.">>
        ELSE IF Lower(p) = Lower(email)
        THEN <<<< >>, "Password cannot be equal to email.">>
        ELSE IF Count(p, AsciiUpper) = 0
        THEN <<<< >>, "Must include uppercase letter.">>
        ELSE IF Count(p, AsciiLower) = 0
        THEN <<<< >>, "Must include lowercase letter.">>
        ELSE IF Count(p, AsciiDigits) = 0
        THEN <<<< >>, "Must include number.">>
        ELSE IF Count(p, PasswordSpecials) = 0
        THEN <<<< >>, "Must include special character.">>
        ELSE <<p, "">>

validate_password_confirmation(password, confirm) ==
    IF password # normalize_basic(confirm)
    THEN <<<< >>, "Passwords do not match">>
    ELSE <<<< >>, "">>

(***************************************************************************)
(* Form orchestrators: each returns <<clean, errors>>, two dicts           *)
(***************************************************************************)
\* {}
EmptyDict == [k \in {} |-> << >>]

\* d[key] = value
Put(d, key, value) ==
    [k \in DOMAIN d \cup {key} |-> IF k = key THEN value ELSE d[k]]

\* clean[key] = value done only for an accepted value
Store_skips_rejected(clean, key, value) ==
    IF value = << >> THEN clean ELSE Put(clean, key, value)

\* clean[key] = value
Store(clean, key, value) == Put(clean, key, value)

\* an orchestrator that stops reporting after the first error
Report_first_only(errors, key, err) ==
    IF err # "" /\ DOMAIN errors = {} THEN Put(errors, key, err) ELSE errors

\* if err: errors[key] = err
Report(errors, key, err) ==
    IF err # "" THEN Put(errors, key, err) ELSE errors

validate_payment_form(card_number, exp_date, cvv, name_on_card, billing_email, today) ==
    LET card  == validate_card_number(card_number)
        exp   == validate_exp_date(exp_date, today)
        cv    == validate_cvv(cvv)
        name  == validate_name_on_card(name_on_card)
        email == validate_billing_email(billing_email)
        errors1 == Report(EmptyDict, "card_number", card[2])
        clean1  == Store(EmptyDict, "card", card[1])
        errors2 == Report(errors1, "exp_date", exp[2])
        clean2  == Store(clean1, "exp_date", exp[1])
        errors3 == Report(errors2, "cvv", cv[2])
        errors4 == Report(errors3, "name_on_card", name[2])
        clean4  == Store(clean2, "name_on_card", name[1])
        errors5 == Report(errors4, "billing_email", email[2])
        clean5  == Store(clean4, "billing_email", email[1])
    IN  <<clean5, errors5>>

validate_register_form(full_name, email, phone, password, confirm_password) ==
    LET name == validate_full_name(full_name)
        em   == validate_email(email)
        ph   == validate_phone(phone)
        pw   == validate_password(password, email)
        conf == validate_password_confirmation(password, confirm_password)
        errors1 == Report(EmptyDict, "full_name", name[2])
        clean1  == Store(EmptyDict, "full_name", name[1])
        errors2 == Report(errors1, "email", em[2])
        clean2  == Store(clean1, "email", em[1])
        errors3 == Report(errors2, "phone", ph[2])
        clean3  == Store(clean2, "phone", ph[1])
        errors4 == Report(errors3, "password", pw[2])
        clean4  == Store(clean3, "password", pw[1])
        errors5 == Report(errors4, "confirm_password", conf[2])
    IN  <<clean4, errors5>>

\* validate_profile_form checking the confirmation outside the "if new_password"
validate_profile_form_confirms_always(full_name, phone, new_password, confirm_new_password, user_email) ==
    LET name == validate_full_name(full_name)
        ph   == validate_phone(phone)
        pw   == validate_password(new_password, user_email)
        conf == validate_password_confirmation(new_password, confirm_new_password)
        errors1 == Report(EmptyDict, "full_name", name[2])
        clean1  == Store(EmptyDict, "full_name", name[1])
        errors2 == Report(errors1, "phone", ph[2])
        clean2  == Store(clean1, "phone", ph[1])
    IN  IF new_password # << >>
        THEN <<Store(clean2, "new_password", pw[1]),
               Report(Report(errors2, "new_password", pw[2]),
                      "confirm_new_password", conf[2])>>
        ELSE <<clean2, Report(errors2, "confirm_new_password", conf[2])>>

validate_profile_form(full_name, phone, new_password, confirm_new_password, user_email) ==
    LET name == validate_full_name(full_name)
        ph   == validate_phone(phone)
        pw   == validate_password(new_password, user_email)
        conf == validate_password_confirmation(new_password, confirm_new_password)
        errors1 == Report(EmptyDict, "full_name", name[2])
        clean1  == Store(EmptyDict, "full_name", name[1])
        errors2 == Report(errors1, "phone", ph[2])
        clean2  == Store(clean1, "phone", ph[1])
    IN  IF new_password # << >>
        THEN <<Store(clean2, "new_password", pw[1]),
               Report(Report(errors2, "new_password", pw[2]),
                      "confirm_new_password", conf[2])>>
        ELSE <<clean2, errors2>>

\* validate_login_form reporting the message of validate_email
validate_login_form_leaks_reason(email, password) ==
    LET em == validate_email(email)
        pw == normalize_basic(password)
        errors1 == Report(EmptyDict, "email", em[2])
        clean1  == Store(EmptyDict, "email", em[1])
        errors2 == IF pw = << >> THEN Put(errors1, "password", "Password is required")
                   ELSE errors1
        clean2  == Store(clean1, "password", pw)
    IN  <<clean2, errors2>>

validate_login_form(email, password) ==
    LET em == validate_email(email)
        pw == normalize_basic(password)
        errors1 == IF em[2] # "" THEN Put(EmptyDict, "email", "Invalid credentials")
                   ELSE EmptyDict
        clean1  == Store(EmptyDict, "email", em[1])
        errors2 == IF pw = << >> THEN Put(errors1, "password", "Invalid credentials")
                   ELSE errors1
        clean2  == Store(clean1, "password", pw)
    IN  <<clean2, errors2>>

(***************************************************************************)
(* Inputs: the bounded sets of strs the calls are made with                *)
(***************************************************************************)
\* length of the free part of an input
MaxTail == 2
\* digits of the card stem: the digit count goes past MaxCardLen
MaxCardStem == 20
\* digits of the phone stem: the digit count goes past 15
MaxPhoneStem == 16
MaxCvvLen == 5
MaxNameTail == 3
MaxPwHead == 4
\* months the clock may stand after January of BaseYear
MaxMonthsAhead == 12
BaseYear == 2021

\* all strs over the characters cs of length at most n
SeqsUpTo(cs, n) == UNION {[1..k -> cs] : k \in 0..n}

\* c * n
Rep(c, n) == [i \in 1..n |-> c]

RefCard ==
    <<"4", "5", "3", "2", "0", "1", "5", "1", "1", "2", "8", "3", "0", "3", "6", "6">>

\* the first n digits of RefCard repeated
CardStem(n) == [i \in 1..n |-> RefCard[((i - 1) % Len(RefCard)) + 1]]

CardInputs ==
    {CardStem(n) \o t :
        n \in 0..MaxCardStem,
        t \in SeqsUpTo(AsciiDigits \cup {" ", "-", "U+FF11"}, MaxTail)}

\* the values datetime.now() takes: month by month from January of BaseYear
Todays ==
    {[year |-> BaseYear + (k \div 12), month |-> (k % 12) + 1] :
        k \in 0..MaxMonthsAhead}

ExpInputs ==
    {pre \o mm \o sep \o yy :
        pre \in {<< >>, <<" ">>},
        mm \in SeqsUpTo({"0", "1", "2"}, MaxTail),
        sep \in {<<"/">>, <<"-">>},
        yy \in SeqsUpTo({"1", "2", "9"}, MaxTail)}

CvvInputs == SeqsUpTo({"1", "a", " ", "U+FF11"}, MaxCvvLen)

EmailInputs ==
    {pre \o local \o at \o host \o dot \o Rep("c", n) :
        pre \in {<< >>, <<" ">>},
        local \in SeqsUpTo({"a", "B", "1", ".", "_"}, MaxTail),
        at \in {<< >>, <<"@">>, <<"@", "@">>},
        host \in {<< >>, <<"c">>, <<"c", ".", "c">>, <<"U+00E9">>},
        dot \in {<< >>, <<".">>},
        n \in 0..4}
    \cup {Rep("a", n) \o <<"@", "c", ".", "c", "c">> :
            n \in {MaxEmailLen - 5, MaxEmailLen - 4}}

NameInputs ==
    {Rep("a", n) \o t :
        n \in {0, MaxNameLen - 1, MaxNameLen},
        t \in SeqsUpTo({"a", "U+00E9", "U+00D7", " ", "'", "1"}, MaxNameTail)}

PhoneInputs ==
    {Rep("5", n) \o t :
        n \in 0..MaxPhoneStem,
        t \in SeqsUpTo({"1", " ", "-", "U+FF11"}, MaxTail)}

PasswordInputs ==
    {pre \o head \o Rep("x", n) \o stem :
        pre \in {<< >>, <<" ">>},
        head \in SeqsUpTo({"A", "a", "1", "!", " "}, MaxPwHead),
        n \in {0, MaxPasswordLen - 7},
        stem \in {<<"@", "b", ".", "c">>, <<"x", "b", "b", "c">>}}

\* the email a password is checked against
ContextEmails ==
    {<<"a", "a", "1", "!", "@", "b", ".", "c">>,
     <<"A", "A", "1", "!", "@", "B", ".", "C">>,
     <<" ", "A", "a", "1", "!", "@", "b", ".", "c">>,
     <<"a", "@", "b", ".", "c">>}

ConfirmInputs == SeqsUpTo({"a", " ", "U+FF11", "1"}, MaxTail)

\* the fields the forms are submitted with
PayCards ==
    {CardStem(n) \o t :
        n \in {10, 14},
        t \in {<<"3", "6">>, <<"6", "6">>, <<"-", "6", "6">>}}
    \cup {<< >>}

PayExps ==
    {mm \o <<"/">> \o yy :
        mm \in {<<"0", "2">>, <<"1", "2">>, <<"2", "0">>},
        yy \in {<<"2", "1">>, <<"2", "2">>, <<"2">>}}
    \cup {<< >>}

PayCvvs == {<<"1", "1", "1">>, <<"1", "a", "1">>, << >>}

PayNames == {<<"a", " ", " ", "B">>, <<"a", "1">>, << >>}

FormNames == {<<"a", " ", " ", "B">>, <<"a", "1">>}

PayEmails ==
    {<<"B", "_", "a", "@", "c", ".", "c", "c">>,
     <<"a", "@", "c", ".", "c", "c">>,
     << >>}

FormPhones == {Rep("5", 7), <<"5", "-", "5">>}

FormPasswords ==
    {pre \o head \o <<"@", "b", ".", "c">> :
        pre \in {<< >>, <<" ">>},
        head \in SeqsUpTo({"A", "a", "1", "!"}, MaxPwHead)}

FormEmails == ContextEmails \cup {<<"a", "b", ".", "c">>}

LoginPasswords == {<< >>, <<"U+00A0">>, <<" ", "a", " ">>}

(***************************************************************************)
(* The calls                                                               *)
(***************************************************************************)
AdminEmail == <<"a", "@", "b", ".", "c">>
UserEmail == <<"x", "@", "b", ".", "c">>

\* the content of data/users.json at start: an administrator and a user
InitialUsers ==
    <<[id |-> 1, email |-> AdminEmail, password |-> <<"a">>,
       role |-> "admin", status |-> "active"],
      [id |-> 2, email |-> UserEmail, password |-> <<"b">>,
       role |-> "user", status |-> "active"]>>

\* the browsers that send requests, each with its own session cookie
Clients == {"c1"}

Init ==
    /\ op = "idle"
    /\ args = << >>
    /\ result = << >>
    /\ users = InitialUsers
    /\ session = [c \in Clients |-> << >>]
    /\ LOGIN_ATTEMPTS = EmptyDict
    /\ clock = 0

CallCardNumber ==
    /\ op = "idle"
    /\ UNCHANGED appvars
    /\ \E card_number \in CardInputs :
          /\ op' = "validate_card_number"
          /\ args' = <<card_number>>
          /\ result' = validate_card_number(card_number)

CallExpDate ==
    /\ op = "idle"
    /\ UNCHANGED appvars
    /\ \E exp_date \in ExpInputs, today \in Todays :
          /\ op' = "validate_exp_date"
          /\ args' = <<exp_date, today>>
          /\ result' = validate_exp_date(exp_date, today)

CallCvv ==
    /\ op = "idle"
    /\ UNCHANGED appvars
    /\ \E cvv \in CvvInputs :
          /\ op' = "validate_cvv"
          /\ args' = <<cvv>>
          /\ result' = validate_cvv(cvv)

CallBillingEmail ==
    /\ op = "idle"
    /\ UNCHANGED appvars
    /\ \E billing_email \in EmailInputs :
          /\ op' = "validate_billing_email"
          /\ args' = <<billing_email>>
          /\ result' = validate_billing_email(billing_email)

CallNameOnCard ==
    /\ op = "idle"
    /\ UNCHANGED appvars
    /\ \E name_on_card \in NameInputs :
          /\ op' = "validate_name_on_card"
          /\ args' = <<name_on_card>>
          /\ result' = validate_name_on_card(name_on_card)

CallFullName ==
    /\ op = "idle"
    /\ UNCHANGED appvars
    /\ \E name \in NameInputs :
          /\ op' = "validate_full_name"
          /\ args' = <<name>>
          /\ result' = validate_full_name(name)

CallEmail ==
    /\ op = "idle"
    /\ UNCHANGED appvars
    /\ \E email \in EmailInputs :
          /\ op' = "validate_email"
          /\ args' = <<email>>
          /\ result' = validate_email(email)

CallPhone ==
    /\ op = "idle"
    /\ UNCHANGED appvars
    /\ \E phone \in PhoneInputs :
          /\ op' = "validate_phone"
          /\ args' = <<phone>>
          /\ result' = validate_phone(phone)

CallPassword ==
    /\ op = "idle"
    /\ UNCHANGED appvars
    /\ \E password \in PasswordInputs, email \in ContextEmails :
          /\ op' = "validate_password"
          /\ args' = <<password, email>>
          /\ result' = validate_password(password, email)

CallPasswordConfirmation ==
    /\ op = "idle"
    /\ UNCHANGED appvars
    /\ \E password \in ConfirmInputs, confirm \in ConfirmInputs :
          /\ op' = "validate_password_confirmation"
          /\ args' = <<password, confirm>>
          /\ result' = validate_password_confirmation(password, confirm)

CallPaymentForm ==
    /\ op = "idle"
    /\ UNCHANGED appvars
    /\ \E card_number \in PayCards, exp_date \in PayExps, cvv \in PayCvvs,
          name_on_card \in PayNames, billing_email \in PayEmails,
          today \in Todays :
          /\ op' = "validate_payment_form"
          /\ args' = <<card_number, exp_date, cvv, name_on_card, billing_email, today>>
          /\ result' = validate_payment_form(card_number, exp_date, cvv,
                                             name_on_card, billing_email, today)

CallRegisterForm ==
    /\ op = "idle"
    /\ UNCHANGED appvars
    /\ \E full_name \in FormNames, email \in FormEmails, phone \in FormPhones,
          password \in FormPasswords :
          \E confirm_password \in {password, normalize_basic(password), << >>} :
             /\ op' = "validate_register_form"
             /\ args' = <<full_name, email, phone, password, confirm_password>>
             /\ result' = validate_register_form(full_name, email, phone,
                                                 password, confirm_password)

CallProfileForm ==
    /\ op = "idle"
    /\ UNCHANGED appvars
    /\ \E full_name \in FormNames, phone \in FormPhones,
          new_password \in FormPasswords \cup {<< >>, <<" ">>},
          user_email \in ContextEmails :
          \E confirm_new_password \in {new_password, << >>, <<"a">>} :
             /\ op' = "validate_profile_form"
             /\ args' = <<full_name, phone, new_password, confirm_new_password,
                          user_email>>
             /\ result' = validate_profile_form(full_name, phone, new_password,
                                                confirm_new_password, user_email)

CallLoginForm ==
    /\ op = "idle"
    /\ UNCHANGED appvars
    /\ \E email \in EmailInputs, password \in LoginPasswords :
          /\ op' = "validate_login_form"
          /\ args' = <<email, password>>
          /\ result' = validate_login_form(email, password)

MaxLuhnLen == 3

\* numbers given to luhn_is_valid: every short digit string, the reference
\* number and the same with its last digit changed, and strings that are not
\* digit strings or hold a fullwidth digit
LuhnInputs ==
    SeqsUpTo(AsciiDigits, MaxLuhnLen)
        \cup {RefCard, [RefCard EXCEPT ![Len(RefCard)] = "7"]}
        \cup {<<"a">>, <<"1", " ", "8">>, <<"1", "-", "8">>, <<"1", "8", ".">>,
              <<"U+FF11", "8">>, <<"U+FF11", "7">>}

CallLuhn ==
    /\ op = "idle"
    /\ UNCHANGED appvars
    /\ \E number \in LuhnInputs :
          /\ op' = "luhn_is_valid"
          /\ args' = <<number>>
          /\ result' = luhn_is_valid(number)

Next ==
    \/ CallCardNumber
    \/ CallExpDate
    \/ CallCvv
    \/ CallBillingEmail
    \/ CallNameOnCard
    \/ CallFullName
    \/ CallEmail
    \/ CallPhone
    \/ CallPassword
    \/ CallPasswordConfirmation
    \/ CallPaymentForm
    \/ CallRegisterForm
    \/ CallProfileForm
    \/ CallLoginForm
    \/ CallLuhn

Spec == Init /\ [][Next]_vars

(***************************************************************************)
(* Credentials and encryption (src/encryption.py).                         *)
(*                                                                         *)
(* bytes are sequences of integers 0..255.  hashlib.pbkdf2_hmac is a       *)
(* library function: its result is the term of its inputs, the password   *)
(* entering as the HMAC key block that HMAC-SHA256 makes of it, so two     *)
(* derivations agree exactly when key block, salt, iteration count and     *)
(* length agree.                                                           *)
(***************************************************************************)
\* str.encode() of one character: its UTF-8 bytes; U+0000 is the NUL character
Utf8Char(c) ==
    CASE c = "U+0000" -> <<0>>
      [] c = "a" -> <<97>>
      [] c = "b" -> <<98>>
      [] c = "U+00E9" -> <<195, 169>>

RECURSIVE encode(_)
\* str.encode()
encode(s) == IF s = << >> THEN << >> ELSE Utf8Char(Head(s)) \o encode(Tail(s))

\* the inverse of Utf8Char on the first bytes of b: <<character, bytes used>>
Utf8Head(b) ==
    IF b[1] = 0 THEN <<"U+0000", 1>>
    ELSE IF b[1] = 97 THEN <<"a", 1>>
    ELSE IF b[1] = 98 THEN <<"b", 1>>
    ELSE IF b[1] = 195 /\ Len(b) >= 2 /\ b[2] = 169 THEN <<"U+00E9", 2>>
    ELSE <<"", 0>>

RECURSIVE decode(_)
\* bytes.decode(): [ok |-> FALSE] stands for UnicodeDecodeError
decode(b) ==
    IF b = << >> THEN [ok |-> TRUE, text |-> << >>]
    ELSE LET h == Utf8Head(b)
         IN  IF h[2] = 0 THEN [ok |-> FALSE, text |-> << >>]
             ELSE LET rest == decode(SubSeq(b, h[2] + 1, Len(b)))
                  IN  [ok |-> rest.ok,
                       text |-> IF rest.ok THEN <<h[1]>> \o rest.text ELSE << >>]

HexDigits ==
    <<"0", "1", "2", "3", "4", "5", "6", "7", "8", "9", "a", "b", "c", "d", "e", "f">>

\* bytes.hex(): two lowercase hexadecimal digits per byte
hex(b) ==
    [i \in 1..(2 * Len(b)) |->
        IF i % 2 = 1 THEN HexDigits[(b[(i + 1) \div 2] \div 16) + 1]
        ELSE HexDigits[(b[i \div 2] % 16) + 1]]

\* the value of a hexadecimal digit of either case, -1 for another character
HexValue(c) ==
    IF \E v \in 1..16 : HexDigits[v] = c
    THEN (CHOOSE v \in 1..16 : HexDigits[v] = c) - 1
    ELSE CASE c = "A" -> 10 [] c = "B" -> 11 [] c = "C" -> 12
           [] c = "D" -> 13 [] c = "E" -> 14 [] c = "F" -> 15
           [] OTHER -> -1

RECURSIVE FromHexAt(_, _)
\* bytes.fromhex(h) from position i on: whitespace before a byte is skipped,
\* a byte is two hexadecimal digits; [ok |-> FALSE] stands for ValueError
FromHexAt(h, i) ==
    IF i > Len(h) THEN [ok |-> TRUE, bytes |-> << >>]
    ELSE IF h[i] \in {" ", "\t"} THEN FromHexAt(h, i + 1)
    ELSE IF i + 1 > Len(h) \/ HexValue(h[i]) < 0 \/ HexValue(h[i + 1]) < 0
    THEN [ok |-> FALSE, bytes |-> << >>]
    ELSE LET rest == FromHexAt(h, i + 2)
         IN  [ok |-> rest.ok,
              bytes |-> IF rest.ok
                        THEN <<16 * HexValue(h[i]) + HexValue(h[i + 1])>> \o rest.bytes
                        ELSE << >>]

\* bytes.fromhex(h)
fromhex(h) == FromHexAt(h, 1)

\* the block size of SHA-256, in bytes
HmacBlockSize == 64

\* the key block HMAC-SHA256 makes of a key: a key longer than the block
\* is replaced by its digest (digest |-> TRUE, the key standing for its
\* digest), and the key is padded with zero bytes to the block size
HmacKeyBlock(key) ==
    IF Len(key) > HmacBlockSize
    THEN [digest |-> TRUE, block |-> key]
    ELSE [digest |-> FALSE,
          block |-> key \o [i \in 1..(HmacBlockSize - Len(key)) |-> 0]]

\* hashlib.pbkdf2_hmac(hash_name, password, salt, iterations, dklen)
pbkdf2_hmac(hash_name, password, salt, iterations, dklen) ==
    [prf |-> hash_name, key |-> HmacKeyBlock(password), salt |-> salt,
     iterations |-> iterations, dklen |-> dklen]

\* key.hex() of a derived key
DerivedHex(key) == [hexOf |-> key]

SaltLen == 16
Iterations == 200000
DerivedKeyLen == 32

\* salt is the value of os.urandom(16)
hash_password(password, salt) ==
    LET key == pbkdf2_hmac("sha256", encode(password), salt, Iterations, DerivedKeyLen)
    IN  [algorithm |-> "pbkdf2_sha256",
         iterations |-> Iterations,
         salt |-> hex(salt),
         hash |-> DerivedHex(key)]

\* verify_password deriving with a salt of its own, not the stored one
verify_password_own_salt(password, stored_data) ==
    LET salt == Rep(0, SaltLen)
        iteraciones == stored_data.iterations
        recalculated_hash ==
            DerivedHex(pbkdf2_hmac("sha256", encode(password), salt,
                                   iteraciones, DerivedKeyLen))
    IN  recalculated_hash = stored_data.hash

verify_password(password, stored_data) ==
    LET salt == fromhex(stored_data.salt).bytes
        iteraciones == stored_data.iterations
        recalculated_hash ==
            DerivedHex(pbkdf2_hmac("sha256", encode(password), salt,
                                   iteraciones, DerivedKeyLen))
    IN  recalculated_hash = stored_data.hash

(***************************************************************************)
(* AES in EAX mode is library code (Crypto.Cipher.AES).  Two stand-ins     *)
(* keep its structure: the cipher is a keystream, depending on key and     *)
(* nonce, combined with the text by exclusive or, and the tag is a         *)
(* function of key, nonce and ciphertext that is injective on the keys,    *)
(* nonces and ciphertexts (of at most MacCapacity bytes) of this model,    *)
(* as a tag nobody can forge is.                                           *)
(***************************************************************************)
Bit(x, k) == (x \div (2 ^ k)) % 2

\* exclusive or of two bytes
Xor(a, b) ==
    LET d(k) == ((Bit(a, k) + Bit(b, k)) % 2) * (2 ^ k)
    IN  d(0) + d(1) + d(2) + d(3) + d(4) + d(5) + d(6) + d(7)

\* byte i of the keystream of key and nonce
Keystream(clave, nonce, i) ==
    (37 * clave[1] + 11 * nonce[1] + Len(nonce) + 101 * i) % 256

\* the keystream applied to data: encryption and decryption alike
ApplyKeystream(clave, nonce, data) ==
    [i \in 1..Len(data) |-> Xor(data[i], Keystream(clave, nonce, i))]

TagLen == 16
MacCapacity == 10

\* the tag of a ciphertext under key and nonce
Mac(clave, nonce, data) ==
    SubSeq(<<clave[1], Len(nonce), nonce[1], nonce[Len(nonce)], nonce[2], Len(data)>>
               \o data \o Rep(0, MacCapacity),
           1, TagLen)

\* nonce is the value of cipher.nonce, the random nonce AES.new draws
encrypt_aes(texto, clave, nonce) ==
    LET texto_bytes == encode(texto)
        texto_cifrado == ApplyKeystream(clave, nonce, texto_bytes)
        tag == Mac(clave, nonce, texto_cifrado)
    IN  <<hex(texto_cifrado), hex(nonce), hex(tag)>>

\* what a call gives: the text it returns, or the message of the exception
\* it raises
Return(text) == [raised |-> "", text |-> text]
Raise(message) == [raised |-> message, text |-> << >>]

\* decrypt_aes calling cipher.decrypt, which checks no tag
decrypt_aes_unverified(texto_cifrado_hex, nonce_hex, tag_hex, clave) ==
    LET texto_cifrado == fromhex(texto_cifrado_hex)
        nonce == fromhex(nonce_hex)
        tag == fromhex(tag_hex)
    IN  IF ~(texto_cifrado.ok /\ nonce.ok /\ tag.ok)
        THEN Raise("non-hexadecimal number found in fromhex()")
        ELSE IF nonce.bytes = << >>
        THEN Raise("Nonce cannot be empty in EAX mode")
        ELSE LET texto_descifrado ==
                     decode(ApplyKeystream(clave, nonce.bytes, texto_cifrado.bytes))
             IN  IF texto_descifrado.ok THEN Return(texto_descifrado.text)
                 ELSE Raise("UnicodeDecodeError")

decrypt_aes(texto_cifrado_hex, nonce_hex, tag_hex, clave) ==
    LET texto_cifrado == fromhex(texto_cifrado_hex)
        nonce == fromhex(nonce_hex)
        tag == fromhex(tag_hex)
    IN  IF ~(texto_cifrado.ok /\ nonce.ok /\ tag.ok)
        THEN Raise("non-hexadecimal number found in fromhex()")
        ELSE IF nonce.bytes = << >>
        THEN Raise("Nonce cannot be empty in EAX mode")
        ELSE IF tag.bytes # Mac(clave, nonce.bytes, texto_cifrado.bytes)
        THEN Raise("MAC check failed")
        ELSE LET texto_descifrado ==
                     decode(ApplyKeystream(clave, nonce.bytes, texto_cifrado.bytes))
             IN  IF texto_descifrado.ok THEN Return(texto_descifrado.text)
                 ELSE Raise("UnicodeDecodeError")

KeyLen == 16
NonceLen == 16

\* values of get_random_bytes(16)
AesKeys == {Rep(1, KeyLen), Rep(2, KeyLen)}

\* values of cipher.nonce
Nonces == {Rep(7, NonceLen), [i \in 1..NonceLen |-> (29 * i) % 256]}

AesTexts == SeqsUpTo({"a", "b", "U+00E9"}, MaxTail)

\* what a holder of the hexadecimal string h of a payload may submit in its
\* place: h, h spelt in upper case, h with the lowest bit or the highest bit
\* of its first byte flipped, h without its last byte, h without its last
\* digit, and nothing
Submitted(h) ==
    LET b == fromhex(h).bytes
        flip(m) == IF b = << >> THEN b ELSE <<Xor(b[1], m)>> \o Tail(b)
    IN  {h, [i \in 1..Len(h) |->
                 CASE h[i] = "a" -> "A" [] h[i] = "b" -> "B" [] h[i] = "c" -> "C"
                   [] h[i] = "d" -> "D" [] h[i] = "e" -> "E" [] h[i] = "f" -> "F"
                   [] OTHER -> h[i]],
         hex(flip(1)), hex(flip(128)),
         SubSeq(h, 1, Len(h) - 2), SubSeq(h, 1, Len(h) - 1), << >>}

CallEncryptAes ==
    /\ op = "idle"
    /\ UNCHANGED appvars
    /\ \E texto \in AesTexts, clave \in AesKeys, nonce \in Nonces :
          /\ op' = "encrypt_aes"
          /\ args' = <<texto, clave, nonce>>
          /\ result' = encrypt_aes(texto, clave, nonce)

\* a payload made by encrypt_aes, as submitted, is decrypted under a key
CallDecryptAes ==
    /\ op = "encrypt_aes"
    /\ UNCHANGED appvars
    /\ \E texto_cifrado_hex \in Submitted(result[1]),
          nonce_hex \in Submitted(result[2]),
          tag_hex \in Submitted(result[3]),
          clave \in AesKeys :
          /\ op' = "decrypt_aes"
          /\ args' = <<texto_cifrado_hex, nonce_hex, tag_hex, clave>>
          /\ result' = decrypt_aes(texto_cifrado_hex, nonce_hex, tag_hex, clave)

\* lengths of the run of "a" a password starts with: none, and the two
\* around the HMAC block size
PasswordStems == {0, HmacBlockSize - 1, HmacBlockSize}

HashPasswords ==
    {Rep("a", n) \o t : n \in PasswordStems,
                        t \in SeqsUpTo({"a", "U+0000", "U+00E9"}, MaxTail)}

\* values of os.urandom(16)
Salts ==
    {Rep(0, SaltLen), Rep(255, SaltLen), [i \in 1..SaltLen |-> (17 * i) % 256]}

CallHashPassword ==
    /\ op = "idle"
    /\ UNCHANGED appvars
    /\ \E password \in HashPasswords, salt \in Salts :
          /\ op' = "hash_password"
          /\ args' = <<password, salt>>
          /\ result' = hash_password(password, salt)

\* a credential made by hash_password is checked against a password
CallVerifyPassword ==
    /\ op = "hash_password"
    /\ UNCHANGED appvars
    /\ \E password \in HashPasswords :
          /\ op' = "verify_password"
          /\ args' = <<password, result>>
          /\ result' = verify_password(password, result)

NextCrypto ==
    \/ CallEncryptAes
    \/ CallDecryptAes
    \/ CallHashPassword
    \/ CallVerifyPassword

SpecCrypto == Init /\ [][NextCrypto]_vars

(***************************************************************************)
(* The web application (src/app.py): login with lockout, and the            *)
(* administration of users.  A user is a record of data/users.json, a       *)
(* response is its HTTP status, 302 being a redirect.                       *)
(***************************************************************************)
MAX_FAILED_ATTEMPTS == 3
LOCKOUT_DURATION_MINUTES == 5

\* LOCKOUT_DURATION_MINUTES * 60
LockSeconds == LOCKOUT_DURATION_MINUTES * 60

\* None, where a user is expected
NoUser == [id |-> 0, email |-> << >>, password |-> << >>, role |-> "", status |-> ""]

\* the first user of the store whose email, stripped and lowercased, is email
find_user_by_email(us, email) ==
    LET email_norm == Lower(Strip(email))
        hits == {i \in 1..Len(us) : Lower(Strip(us[i].email)) = email_norm}
    IN  IF hits = {} THEN NoUser
        ELSE us[CHOOSE i \in hits : \A j \in hits : i <= j]

\* user_email is session.get("user_email"), << >> when the session has none
get_current_user(us, user_email) ==
    IF user_email = << >> THEN NoUser ELSE find_user_by_email(us, user_email)

\* {"intentos": 0, "tiempoBloqueo": 0}
NoAttempts == [intentos |-> 0, tiempoBloqueo |-> 0]

\* the record kept for the email k, as login() finds or makes it
AttemptsOf(attempts, k) ==
    IF k \in DOMAIN attempts THEN attempts[k] ELSE NoAttempts

\* what login() answers and leaves: the status, LOGIN_ATTEMPTS, the email put
\* in the session (<< >> when none is), and the last timestamp read (0 when
\* none is)
Answer(status, attempts, user_email, read) ==
    [status |-> status, attempts |-> attempts, user_email |-> user_email, read |-> read]

\* the record of an email at now_ts: cleared when its lock has ended
Expire(found, now_ts) ==
    IF found.tiempoBloqueo > 0 /\ found.tiempoBloqueo <= now_ts
    THEN NoAttempts ELSE found

\* a lock test that lets every request through
IsLocked_never(estado, now_ts) == FALSE

\* the email is locked at now_ts
IsLocked(estado, now_ts) == estado.tiempoBloqueo > now_ts

\* the record after one more failed check; lock_ts is the timestamp read when
\* the limit is reached
CountFailure(estado, lock_ts) ==
    IF estado.intentos + 1 >= MAX_FAILED_ATTEMPTS
    THEN [intentos |-> estado.intentos + 1, tiempoBloqueo |-> lock_ts + LockSeconds]
    ELSE [intentos |-> estado.intentos + 1, tiempoBloqueo |-> estado.tiempoBloqueo]

\* login() from the lock test on, estado being the record of email_norm
CheckCredentials(user, attempts, email_norm, password, estado, now_ts, lock_ts) ==
    IF IsLocked(estado, now_ts)
    THEN Answer(403, Put(attempts, email_norm, estado), << >>, now_ts)
    ELSE IF user = NoUser \/ user.password # password
    THEN Answer(401, Put(attempts, email_norm, CountFailure(estado, lock_ts)), << >>,
                IF estado.intentos + 1 >= MAX_FAILED_ATTEMPTS THEN lock_ts ELSE now_ts)
    ELSE Answer(302, Put(attempts, email_norm, NoAttempts),
                Lower(Strip(user.email)), now_ts)

\* login() for a form that passed validate_login_form
Authenticate(us, attempts, email, email_norm, password, now_ts, lock_ts) ==
    IF Strip(email) = << >> \/ Strip(password) = << >>
    THEN Answer(400, attempts, << >>, 0)
    ELSE CheckCredentials(find_user_by_email(us, email_norm), attempts, email_norm,
                          password,
                          Expire(AttemptsOf(attempts, email_norm), now_ts),
                          now_ts, lock_ts)

\* POST /login; now_ts and lock_ts are the two readings of the clock, the
\* second made only when the email gets locked
login(us, attempts, email, password, now_ts, lock_ts) ==
    LET form == validate_login_form(email, password)
    IN  IF DOMAIN form[2] # {} THEN Answer(400, attempts, << >>, 0)
        ELSE Authenticate(us, attempts, email, form[1]["email"], form[1]["password"],
                          now_ts, lock_ts)

\* the decorator admin_required: the status it answers with, or 0 when it
\* calls the handler
admin_required(us, user_email) ==
    LET user == get_current_user(us, user_email)
    IN  IF user = NoUser THEN 302
        ELSE IF user.role # "admin" THEN 403
        ELSE 0

\* the index of the first user with the id user_id, 0 when there is none
UserIndex(us, user_id) ==
    LET hits == {i \in 1..Len(us) : us[i].id = user_id}
    IN  IF hits = {} THEN 0 ELSE CHOOSE i \in hits : \A j \in hits : i <= j

\* POST /admin/users/<user_id>/toggle, behind admin_required
admin_toggle_user(us, user_email, user_id) ==
    LET gate == admin_required(us, user_email)
        i == UserIndex(us, user_id)
    IN  IF gate # 0 THEN [status |-> gate, users |-> us]
        ELSE [status |-> 302,
              users |-> IF i = 0 THEN us
                        ELSE [us EXCEPT ![i].status =
                                 IF us[i].status = "active" THEN "disabled"
                                 ELSE "active"]]

\* POST /admin/users/<user_id>/role: no decorator looks at the session
admin_change_role(us, user_id, new_role) ==
    LET i == UserIndex(us, user_id)
    IN  [status |-> 302,
         users |-> IF i = 0 THEN us ELSE [us EXCEPT ![i].role = new_role]]

\* emails and passwords of login requests: the administrator's email in
\* capitals and with a space before it, and the user's; the password of each
\* user, wrong for the other, and an empty one
RequestEmails == {<<" ", "A", "@", "B", ".", "C">>, UserEmail}

RequestPasswords == {<<"a">>, <<"b">>, << >>}

\* the timestamps at which requests arrive
Instants == {0, LockSeconds - 1, LockSeconds}

\* the ids in toggle and role requests: the user's, and one no user has
UserIds == {2, 3}
Roles == {"admin", "user"}

PostLogin ==
    \E client \in Clients, email \in RequestEmails, password \in RequestPasswords,
       now_ts \in Instants, late \in {0, 1} :
        /\ now_ts >= clock
        /\ LET answer == login(users, LOGIN_ATTEMPTS, email, password,
                               now_ts, now_ts + late)
           IN  /\ op' = "login"
               /\ args' = <<client, email, password>>
               /\ result' = answer.status
               /\ LOGIN_ATTEMPTS' = answer.attempts
               /\ session' = IF answer.status = 302
                             THEN [session EXCEPT ![client] = answer.user_email]
                             ELSE session
               /\ clock' = IF answer.read > clock THEN answer.read ELSE clock
               /\ UNCHANGED users

PostAdminToggle ==
    \E client \in Clients, user_id \in UserIds :
        LET answer == admin_toggle_user(users, session[client], user_id)
        IN  /\ op' = "admin_toggle_user"
            /\ args' = <<client, user_id>>
            /\ result' = answer.status
            /\ users' = answer.users
            /\ UNCHANGED <<session, LOGIN_ATTEMPTS, clock>>

PostAdminRole ==
    \E client \in Clients, user_id \in UserIds, new_role \in Roles :
        LET answer == admin_change_role(users, user_id, new_role)
        IN  /\ op' = "admin_change_role"
            /\ args' = <<client, user_id, new_role>>
            /\ result' = answer.status
            /\ users' = answer.users
            /\ UNCHANGED <<session, LOGIN_ATTEMPTS, clock>>

NextApp ==
    \/ PostLogin
    \/ PostAdminToggle
    \/ PostAdminRole

SpecApp == Init /\ [][NextApp]_vars

(***************************************************************************)
(* Properties                                                              *)
(***************************************************************************)
FieldValidators ==
    {"validate_card_number", "validate_exp_date", "validate_cvv",
     "validate_billing_email", "validate_name_on_card", "validate_full_name",
     "validate_email", "validate_phone", "validate_password",
     "validate_password_confirmation"}

Orchestrators ==
    {"validate_payment_form", "validate_register_form",
     "validate_profile_form", "validate_login_form"}

\* every character of s is an ASCII digit
AllAsciiDigits(s) == \A i \in 1..Len(s) : s[i] \in AsciiDigits

\* C1: whenever a field validator returns a non-empty error message, the
\* clean value it returns is the empty string.
C1_ErrorMeansEmptyClean ==
    op \in FieldValidators => (result[2] # "" => result[1] = << >>)

\* a full name of allowed length is rejected for its characters
C1_Witness ==
    /\ op = "validate_full_name"
    /\ result = <<<< >>, "Invalid characters in name">>

\* C2: a string of 13 to 19 ASCII digits that satisfies the Luhn checksum
\* is returned unchanged by validate_card_number, with no error message.
C2_ValidCardAccepted ==
    (/\ op = "validate_card_number"
     /\ AllAsciiDigits(args[1])
     /\ Len(args[1]) >= 13
     /\ Len(args[1]) <= 19
     /\ LuhnChecksum(args[1], 0) % 10 = 0)
    => result = <<args[1], "">>

\* a Luhn-valid string of 19 digits is accepted
C2_Witness ==
    /\ op = "validate_card_number"
    /\ AllAsciiDigits(args[1])
    /\ Len(args[1]) = 19
    /\ result = <<args[1], "">>

\* C3: validate_card_number names the cause of a rejection: fewer than 13
\* or more than 19 digits (or none) in the input gives the length/format
\* message, and the Luhn message is given to inputs that fail the checksum.
C3_RejectionByCause ==
    op = "validate_card_number" =>
        LET digits == Filter(NFKC(args[1]), AsciiDigits)
        IN  /\ (Len(digits) < 13 \/ Len(digits) > 19) =>
                  result[2] = "Only digits allowed, please retype your card number"
            /\ result[2] = "Invalid card number by Luhn" =>
                  ~luhn_is_valid(digits)

\* the keys of the error map and of the clean map of a form call
ErrorKeys == DOMAIN result[2]
CleanKeys == DOMAIN result[1]

\* C4: validate_payment_form stores the normalized input of every accepted
\* field: for card number, expiry date, name on card and billing email, a
\* field without an entry in the error map has its normalized input as its
\* clean value (an accepted expiry date is stored as the MM/YY string).
C4_CleanIsNormalizedInput ==
    op = "validate_payment_form" =>
        /\ "card_number" \notin ErrorKeys =>
              result[1]["card"] = Filter(normalize_basic(args[1]), AsciiDigits)
        /\ "exp_date" \notin ErrorKeys =>
              result[1]["exp_date"] = normalize_basic(args[2])
        /\ "name_on_card" \notin ErrorKeys =>
              result[1]["name_on_card"] = JoinSplit(normalize_basic(args[4]))
        /\ "billing_email" \notin ErrorKeys =>
              result[1]["billing_email"] = Lower(normalize_basic(args[5]))

\* C5: the keys of the clean map of an orchestrator are the same for all
\* inputs, new_password of the profile form included.
C5_CleanKeysFixed ==
    /\ op = "validate_payment_form" =>
          CleanKeys = {"card", "exp_date", "name_on_card", "billing_email"}
    /\ op = "validate_register_form" =>
          CleanKeys = {"full_name", "email", "phone", "password"}
    /\ op = "validate_profile_form" =>
          CleanKeys = {"full_name", "phone", "new_password"}
    /\ op = "validate_login_form" =>
          CleanKeys = {"email", "password"}

\* C5 as amended: the payment, registration and login forms have the same
\* clean keys for all inputs; the profile form always has full_name and
\* phone, and has new_password exactly when the submitted new_password is
\* not the empty string.
C5_CleanKeysByForm ==
    /\ op = "validate_payment_form" =>
          CleanKeys = {"card", "exp_date", "name_on_card", "billing_email"}
    /\ op = "validate_register_form" =>
          CleanKeys = {"full_name", "email", "phone", "password"}
    /\ op = "validate_profile_form" =>
          CleanKeys = {"full_name", "phone"}
              \cup (IF args[3] # << >> THEN {"new_password"} ELSE {})
    /\ op = "validate_login_form" =>
          CleanKeys = {"email", "password"}

\* a profile call without a new password, and with a rejected full name,
\* returns a clean map of full_name and phone only
C5_Witness ==
    /\ op = "validate_profile_form"
    /\ args[3] = << >>
    /\ "full_name" \in ErrorKeys
    /\ CleanKeys = {"full_name", "phone"}
    /\ result[1]["full_name"] = << >>

\* C6: the CVV is never returned for storage: validate_cvv returns the
\* empty clean value for every input (a CVV of 3 or 4 digits gives
\* ("", "")), and the clean map of validate_payment_form has exactly the
\* keys card, exp_date, name_on_card, billing_email.
C6_CvvNeverReturned ==
    /\ op = "validate_cvv" =>
          /\ result[1] = << >>
          /\ (AllAsciiDigits(args[1]) /\ Len(args[1]) \in {3, 4}) =>
                result = <<<< >>, "">>
    /\ op = "validate_payment_form" =>
          CleanKeys = {"card", "exp_date", "name_on_card", "billing_email"}

\* the CVV "111" is accepted and not returned
C6_Witness ==
    /\ op = "validate_cvv"
    /\ args[1] = <<"1", "1", "1">>
    /\ result = <<<< >>, "">>

\* the error map holding exactly the non-empty messages of expected,
\* a function from keys to the messages the validators return
ErrorsAre(expected) ==
    /\ ErrorKeys = {k \in DOMAIN expected : expected[k] # ""}
    /\ \A k \in ErrorKeys : result[2][k] = expected[k]

\* C7: the payment and registration forms do not short-circuit: the error
\* map has a field's key exactly when that field's validator returns a
\* non-empty message for the submitted inputs, whatever the other fields.
C7_AllErrorsReported ==
    /\ op = "validate_payment_form" =>
          ErrorsAre([card_number |-> validate_card_number(args[1])[2],
                     exp_date |-> validate_exp_date(args[2], args[6])[2],
                     cvv |-> validate_cvv(args[3])[2],
                     name_on_card |-> validate_name_on_card(args[4])[2],
                     billing_email |-> validate_billing_email(args[5])[2]])
    /\ op = "validate_register_form" =>
          ErrorsAre([full_name |-> validate_full_name(args[1])[2],
                     email |-> validate_email(args[2])[2],
                     phone |-> validate_phone(args[3])[2],
                     password |-> validate_password(args[4], args[2])[2],
                     confirm_password |->
                         validate_password_confirmation(args[4], args[5])[2]])

\* a payment call reports the errors of all five fields at once
C7_Witness ==
    /\ op = "validate_payment_form"
    /\ args[1] # << >>
    /\ ErrorKeys = {"card_number", "exp_date", "cvv", "name_on_card", "billing_email"}

\* C8: validate_register_form reports a password error whenever the
\* submitted password equals the submitted email ignoring case, the two
\* compared as they are accepted, that is after normalization.
C8_PasswordEqualEmailRejected ==
    (/\ op = "validate_register_form"
     /\ Lower(normalize_basic(args[4])) = Lower(normalize_basic(args[2])))
    => "password" \in ErrorKeys

\* the year and month of a date as a count of months
MonthIndex(year, month) == 12 * year + month

\* C9: validate_exp_date gives the format error to an input that does not
\* parse as MM/YY, the expired error to a date strictly before the current
\* year and month, and no error to the current month or a later one.
C9_ExpiryComparison ==
    op = "validate_exp_date" =>
        LET d == strptime(normalize_basic(args[1]))
            today == args[2]
        IN  /\ ~d.ok => result[2] = "Please use MM/YY format"
            /\ (d.ok /\ MonthIndex(d.year, d.month) < MonthIndex(today.year, today.month))
                  => result[2] = "Out of date, use another card."
            /\ (d.ok /\ MonthIndex(d.year, d.month) >= MonthIndex(today.year, today.month))
                  => result[2] = ""

\* a card that expires in the current month is accepted
C9_Witness ==
    /\ op = "validate_exp_date"
    /\ strptime(normalize_basic(args[1])).ok
    /\ strptime(normalize_basic(args[1])).year = args[2].year
    /\ strptime(normalize_basic(args[1])).month = args[2].month
    /\ result[2] = ""

\* C10: in validate_profile_form an empty new_password gives no
\* new_password and no confirm_new_password error, whatever the
\* confirmation is, and full name and phone are validated in every call.
C10_NoPasswordNoPasswordErrors ==
    op = "validate_profile_form" =>
        /\ args[3] = << >> =>
              ErrorKeys \cap {"new_password", "confirm_new_password"} = {}
        /\ "full_name" \in ErrorKeys <=> validate_full_name(args[1])[2] # ""
        /\ "phone" \in ErrorKeys <=> validate_phone(args[2])[2] # ""

\* no new password, a non-empty confirmation, a rejected phone: the phone
\* error is the only one
C10_Witness ==
    /\ op = "validate_profile_form"
    /\ args[3] = << >>
    /\ args[4] = <<"a">>
    /\ ErrorKeys = {"phone"}

\* C11: every message in the error map of validate_login_form is the one
\* generic message "Invalid credentials", for a rejected email and for a
\* rejected password alike, whatever the reason of the rejection.
C11_GenericLoginMessage ==
    op = "validate_login_form" =>
        /\ \A k \in ErrorKeys : result[2][k] = "Invalid credentials"
        /\ "email" \in ErrorKeys <=> validate_email(args[1])[2] # ""
        /\ "password" \in ErrorKeys <=> normalize_basic(args[2]) = << >>

\* a malformed (not a missing) email and a blank password are both
\* reported, with the same message
C11_Witness ==
    /\ op = "validate_login_form"
    /\ validate_email(args[1])[2] = "Invalid email format"
    /\ args[2] # << >>
    /\ ErrorKeys = {"email", "password"}
    /\ result[2]["email"] = result[2]["password"]

\* a step that checks the password args'[1] against the credential that
\* hash_password has just made of the password args[1]
VerifyAfterHash == op = "hash_password" /\ op' = "verify_password"

\* C12 (as stated): verifying a password against the credential made of a
\* password succeeds exactly when the two passwords are the same string.
C12_VerifyIffSamePassword ==
    [][VerifyAfterHash => (result' = (args'[1] = args[1]))]_vars

\* C12: the credential made by hash_password carries the salt and the
\* iteration count it was derived with, verify_password re-derives with
\* exactly these, and it succeeds exactly when the two passwords give the same
\* HMAC-SHA256 key block: always for the same password, never for passwords
\* with different key blocks.
C12_VerifyIffSameKeyBlock ==
    [][/\ op' = "hash_password" =>
            /\ fromhex(result'.salt) = [ok |-> TRUE, bytes |-> args'[2]]
            /\ result'.iterations = Iterations
            /\ result'.hash.hexOf.salt = args'[2]
            /\ result'.hash.hexOf.iterations = result'.iterations
       /\ VerifyAfterHash =>
            /\ args'[2] = result
            /\ result' = (HmacKeyBlock(encode(args'[1])) = HmacKeyBlock(encode(args[1])))
            /\ args'[1] = args[1] => result' = TRUE]_vars

\* a password longer than the HMAC block has verified against the credential
\* made of it
C12_Witness ==
    /\ op = "verify_password"
    /\ Len(encode(args[1])) > HmacBlockSize
    /\ args[2].hash.hexOf.key = HmacKeyBlock(encode(args[1]))
    /\ result = TRUE

\* a step that decrypts, under the key args'[4], what was submitted for the
\* payload that encrypt_aes has just made of the text args[1] under the key
\* args[2]
DecryptAfterEncrypt == op = "encrypt_aes" /\ op' = "decrypt_aes"

\* the submitted strings are hexadecimal and the nonce is not empty
WellFormedPayload(a) ==
    /\ \A i \in 1..3 : fromhex(a[i]).ok
    /\ fromhex(a[2]).bytes # << >>

\* the submitted strings spell the bytes of the payload
SamePayload(a, payload) ==
    \A i \in 1..3 : fromhex(a[i]) = [ok |-> TRUE, bytes |-> fromhex(payload[i]).bytes]

\* C13: decrypt_aes returns a text only when the tag verifies: called with
\* the bytes of a payload of encrypt_aes and its key it returns the original
\* text; called with altered bytes of ciphertext, nonce or tag, or with
\* another key, it raises "MAC check failed"; whenever it raises, and so also
\* for a malformed payload, it returns no text at all.
C13_DecryptOnlyAuthentic ==
    [][DecryptAfterEncrypt =>
         LET unaltered == SamePayload(args', result) /\ args'[4] = args[2]
         IN  /\ unaltered => result' = Return(args[1])
             /\ (WellFormedPayload(args') /\ ~unaltered) =>
                    result' = Raise("MAC check failed")
             /\ ~unaltered => (result'.raised # "" /\ result'.text = << >>)]_vars

\* a payload with one bit of its ciphertext flipped, its nonce and tag and the
\* key as they were, has been refused
C13_Witness ==
    /\ op = "decrypt_aes"
    /\ result = Raise("MAC check failed")
    /\ args[4] = Rep(1, KeyLen)
    /\ fromhex(args[2]).bytes = Rep(7, NonceLen)
    /\ fromhex(args[1]).bytes = <<Xor(128, Xor(97, Keystream(args[4], Rep(7, NonceLen), 1)))>>
    /\ fromhex(args[3]).bytes = Mac(args[4], Rep(7, NonceLen), <<Xor(97, Keystream(args[4], Rep(7, NonceLen), 1))>>)

\* C14: a number that is empty or not a digit string is rejected by
\* luhn_is_valid, and when a non-empty digit string is accepted, the string
\* with any one of its digits replaced by a digit of another value is
\* rejected; "4532015112830366" is accepted and "4532015112830367" is not.
C14_SingleDigitChangeRejected ==
    op = "luhn_is_valid" =>
        LET number == args[1]
        IN  /\ (number = << >> \/ ~IsDigit(number)) => result = FALSE
            /\ result = TRUE =>
                   \A i \in 1..Len(number) :
                       \A d \in AsciiDigits \cup {"U+FF11"} :
                           DigitValue(d) # DigitValue(number[i]) =>
                               ~luhn_is_valid([number EXCEPT ![i] = d])
            /\ number = RefCard => result = TRUE
            /\ number = [RefCard EXCEPT ![Len(RefCard)] = "7"] => result = FALSE

\* the reference number "4532015112830366" has been accepted
C14_Witness ==
    /\ op = "luhn_is_valid"
    /\ args[1] = RefCard
    /\ Len(args[1]) = 16
    /\ result = TRUE

\* C15: validate_billing_email and validate_email decide every input alike:
\* both accept it and return the same value, or both reject it.
C15_SameEmailRule ==
    op \in {"validate_billing_email", "validate_email"} =>
        LET billing == validate_billing_email(args[1])
            email == validate_email(args[1])
        IN  \/ billing[2] = "" /\ email[2] = "" /\ billing[1] = email[1]
            \/ billing[2] # "" /\ email[2] # ""

\* C16: when validate_register_form is given the same string as password and
\* as confirm_password, and validate_password accepts the password, the error
\* map has no confirm_password entry.
C16_SamePasswordNoMismatch ==
    (/\ op = "validate_register_form"
     /\ args[4] = args[5]
     /\ validate_password(args[4], args[2])[2] = "")
        => "confirm_password" \notin ErrorKeys

\* the key of LOGIN_ATTEMPTS a login request with the arguments a goes to
AttemptsKey(a) == validate_login_form(a[2], a[3])[1]["email"]

\* C17: a login request that fails form validation (400) changes nothing.
\* For every other login request, with k its normalized email: the records of
\* other emails and the user store stay as they are; while the lock of k lies
\* after the timestamp read, and only then, the answer is 403, whatever the
\* password, no session is set and the record of k stays as it is; a session
\* is set only by the answer 302, given for the password of the user k, which
\* clears the record; a failed check (401) adds one to the counter, which
\* restarts from 0 when a lock has expired, and on reaching
\* MAX_FAILED_ATTEMPTS sets the lock to LOCKOUT_DURATION_MINUTES after the
\* timestamp read at this failure; and a record has a lock exactly when its
\* counter has reached MAX_FAILED_ATTEMPTS.
C17_LoginLockout ==
    [][/\ (op' = "login" /\ result' = 400) => UNCHANGED appvars
       /\ (op' = "login" /\ result' # 400) =>
            LET k == AttemptsKey(args')
                before == AttemptsOf(LOGIN_ATTEMPTS, k)
                after == LOGIN_ATTEMPTS'[k]
                user == find_user_by_email(users, k)
                right == user # NoUser /\ user.password = normalize_basic(args'[3])
            IN  /\ result' \in {403, 401, 302}
                /\ users' = users
                /\ DOMAIN LOGIN_ATTEMPTS' = DOMAIN LOGIN_ATTEMPTS \cup {k}
                /\ \A e \in DOMAIN LOGIN_ATTEMPTS \ {k} :
                       LOGIN_ATTEMPTS'[e] = LOGIN_ATTEMPTS[e]
                /\ before.tiempoBloqueo > clock' <=> result' = 403
                /\ result' = 403 => (session' = session /\ after = before)
                /\ result' = 302 <=> session' # session \/ (right /\ result' # 403)
                /\ result' = 302 =>
                       /\ right
                       /\ session' = [session EXCEPT ![args'[1]] = k]
                       /\ after = NoAttempts
                /\ result' = 401 =>
                       /\ ~right
                       /\ session' = session
                       /\ after.intentos =
                              (IF before.tiempoBloqueo > 0 THEN 0 ELSE before.intentos) + 1
                       /\ after.tiempoBloqueo =
                              IF after.intentos >= MAX_FAILED_ATTEMPTS
                              THEN clock' + LockSeconds ELSE 0
                /\ \A e \in DOMAIN LOGIN_ATTEMPTS' :
                       /\ LOGIN_ATTEMPTS'[e].intentos <= MAX_FAILED_ATTEMPTS
                       /\ LOGIN_ATTEMPTS'[e].tiempoBloqueo > 0
                              <=> LOGIN_ATTEMPTS'[e].intentos = MAX_FAILED_ATTEMPTS]_vars

\* the administrator, locked after three failed checks at timestamp 0, has
\* been refused with the right password one second before the lock ends
C17_Witness ==
    /\ op = "login"
    /\ result = 403
    /\ AttemptsKey(args) = AdminEmail
    /\ normalize_basic(args[3]) = find_user_by_email(users, AdminEmail).password
    /\ LOGIN_ATTEMPTS[AdminEmail] =
           [intentos |-> MAX_FAILED_ATTEMPTS, tiempoBloqueo |-> LockSeconds]
    /\ clock = LockSeconds - 1
    /\ session[args[1]] = << >>

\* C18: the role or the status of a stored user changes only in a request of
\* a client whose session is that of a user with the role "admin"; toggle and
\* role requests of other clients leave the user store as it is.
C18_OnlyAdminChangesUsers ==
    [][users' # users =>
         LET requester == get_current_user(users, session[args'[1]])
         IN  requester # NoUser /\ requester.role = "admin"]_vars

====
